---- MODULE Spec2Model ----
(***************************************************************************)
(* BeneDict: attribute-addressable dict (benedict/__init__.py), its        *)
(* order-preserving variant (benedict/ordered.py) and the default-filling  *)
(* config merge (benedict/config.py).                                      *)
(*                                                                         *)
(* Python values are tagged records.  A dict-like object carries its class *)
(* (cls), its backing mapping (kv) and its instance __dict__ (at), the two *)
(* slots that __setattr__ writes.  Keys are TLA+ strings; a key in NumKeys *)
(* stands for a non-string Python key.  String VALUES are sequences of     *)
(* one-character strings so that lower(), split() and strip() are computed.*)
(***************************************************************************)
EXTENDS Integers, Sequences, FiniteSets, TLC

VARIABLES tree, last, cfg, dflt, out, src, copy, alias

vars == <<tree, last, cfg, dflt, out, src, copy, alias>>

-----------------------------------------------------------------------------
(* Bounds *)

MaxKeys == 2
MaxDepth == 2

-----------------------------------------------------------------------------
(* Python values *)

NoneV == [t |-> "none"]
IntV(i) == [t |-> "int", i |-> i]
BoolV(b) == [t |-> "bool", b |-> b]
FloatV(f) == [t |-> "float", f |-> f]
StrV(s) == [t |-> "str", s |-> s]
ListV(e) == [t |-> "list", e |-> e]
TupleV(e) == [t |-> "tuple", e |-> e]
MethodV(f) == [t |-> "method", f |-> f]
EmptyMap == [k \in {} |-> NoneV]
Obj(cls, kv, at) == [t |-> "dict", cls |-> cls, kv |-> kv, at |-> at]
DictV(kv) == Obj("dict", kv, EmptyMap)

IsSeqV(v) == v.t \in {"list", "tuple"}
IsDictV(v) == v.t = "dict"
IsBeneDict(v) == v.t = "dict" /\ v.cls \in {"BeneDict", "Config", "MyClass"}
IsOrderedBeneDict(v) == v.t = "dict" /\ v.cls = "OrderedBeneDict"
SeqOfKind(kind, e) == [t |-> kind, e |-> e]

Ok(v) == [err |-> "", val |-> v, msg |-> <<>>]
Raise(e) == [err |-> e, val |-> NoneV, msg |-> <<>>]
RaiseMsg(e, m) == [err |-> e, val |-> NoneV, msg |-> m]

\* continue with F on the value of r unless r raised
AndThen(r, F(_)) == IF r.err # "" THEN r ELSE F(r.val)

Put(f, k, v) == [x \in DOMAIN f \cup {k} |-> IF x = k THEN v ELSE f[x]]

-----------------------------------------------------------------------------
(* Names *)

NumKeys == {"-13"}
IsStrName(k) == k \notin NumKeys

MethodSeq ==
    <<"keys", "items", "values", "get", "clear", "update", "pop", "popitem",
      "to_dict", "deepcopy">>
    \o [i \in 1..8 |->
          (IF i <= 4 THEN "load" ELSE "dump")
          \o (IF (i - 1) % 4 < 2 THEN "s" ELSE "")
          \o "_"
          \o (IF i % 2 = 1 THEN "json" ELSE "yaml")]

ProtectedSeq == [i \in 1..Len(MethodSeq) |-> "builtin_" \o MethodSeq[i]]

Range(s) == {s[i] : i \in DOMAIN s}

BeneDict_NATIVE_METHODS == MethodSeq \o ProtectedSeq
BeneDict_PROTECTED_METHODS == ProtectedSeq
NativeNames == Range(BeneDict_NATIVE_METHODS)
ProtectedNames == Range(BeneDict_PROTECTED_METHODS)

DictMethods ==
    {"clear", "copy", "fromkeys", "get", "items", "keys", "pop", "popitem",
     "setdefault", "update", "values"}

OrderedOwnMethods ==
    {"to_dict", "deepcopy", "load_json_file", "load_json_str",
     "load_yaml_file", "load_yaml_str", "load_file", "dump_json_file",
     "dump_json_str", "dump_yaml_file", "dump_yaml_str", "dump_file"}

_builtin_name(method_name) == "builtin_" \o method_name

_is_builtin(method_name) ==
    \E m \in DictMethods \cup OrderedOwnMethods \cup {"move_to_end"} \cup Range(MethodSeq) :
        method_name = "builtin_" \o m

DunderNames == {"__class__", "__module__", "__doc__", "__getattr__", "__init__",
                "__setattr__", "__setitem__", "__getstate__", "__setstate__",
                "__str__", "__dict__", "__weakref__"}
IsDunder(k) == k \in DunderNames

(* Iteration order of a mapping: Python iterates in insertion order; the   *)
(* model fixes one order over the key universe.                            *)
KeyOrder ==
    <<"a", "b", "c", "mode", "keys", "builtin_keys", "-13", "__class__", "extend", "_c0">>
KeysInOrder(kv) == SelectSeq(KeyOrder, LAMBDA k : k \in DOMAIN kv)

-----------------------------------------------------------------------------
(* Class namespaces: attribute name -> implementation *)

DictNS == [m \in DictMethods |-> "dict." \o m]

BeneDictBody ==
    [n \in DictMethods \cup Range(SubSeq(MethodSeq, 9, Len(MethodSeq)))
           \cup Range(ProtectedSeq) |->
        IF n \in Range(SubSeq(MethodSeq, 9, Len(MethodSeq))) THEN "BeneDict." \o n
        ELSE IF n \in DictMethods THEN DictNS[n]
        ELSE LET i == CHOOSE j \in DOMAIN ProtectedSeq : ProtectedSeq[j] = n
             IN IF i <= 8 THEN "dict." \o MethodSeq[i] ELSE "BeneDict." \o MethodSeq[i]]

\* variant: the aliases paired with the operation one place further on
_add_protected_methods_shifted(ns) ==
    [n \in DOMAIN ns \cup Range(BeneDict_PROTECTED_METHODS) |->
        IF \E i \in DOMAIN BeneDict_PROTECTED_METHODS : BeneDict_PROTECTED_METHODS[i] = n
        THEN ns[BeneDict_NATIVE_METHODS[
                  1 + CHOOSE i \in DOMAIN BeneDict_PROTECTED_METHODS :
                          BeneDict_PROTECTED_METHODS[i] = n]]
        ELSE ns[n]]

_add_protected_methods(ns) ==
    [n \in DOMAIN ns \cup Range(BeneDict_PROTECTED_METHODS) |->
        IF \E i \in DOMAIN BeneDict_PROTECTED_METHODS : BeneDict_PROTECTED_METHODS[i] = n
        THEN ns[BeneDict_NATIVE_METHODS[
                  CHOOSE i \in DOMAIN BeneDict_PROTECTED_METHODS :
                      BeneDict_PROTECTED_METHODS[i] = n]]
        ELSE ns[n]]

BeneDictNS == _add_protected_methods(BeneDictBody)

ConfigNS == [n \in DOMAIN BeneDictNS \cup {"extend"} |->
                IF n = "extend" THEN "Config.extend" ELSE BeneDictNS[n]]

OrderedBody ==
    [n \in DictMethods \cup {"move_to_end"} \cup OrderedOwnMethods |->
        IF n \in OrderedOwnMethods THEN "OrderedBeneDict." \o n
        ELSE "OrderedDict." \o n]

\* OrderedBeneDict.__new__: names it protects, and the aliases it binds
OrderedProtected ==
    {_builtin_name(n) : n \in {m \in DOMAIN OrderedBody : ~_is_builtin(m)}}

OrderedBeneDict_new(ns) ==
    [n \in DOMAIN ns \cup OrderedProtected |->
        IF n \in OrderedProtected
        THEN ns[CHOOSE m \in DOMAIN ns : _builtin_name(m) = n]
        ELSE ns[n]]

OrderedNS == OrderedBeneDict_new(OrderedBody)

\* the class-level default fields, name -> value.  class MyClass(BeneDict) of
\* the demo is cut down to its sequence field _c0; a0 and b0 hold mappings.
ClassData(cls) ==
    IF cls = "MyClass" THEN "_c0" :> TupleV(<<IntV(200), IntV(300), IntV(400)>>)
    ELSE EmptyMap

ClassNS(cls) ==
    CASE cls = "BeneDict" -> BeneDictNS
      [] cls = "MyClass" -> BeneDictNS
      [] cls = "Config" -> ConfigNS
      [] cls = "OrderedBeneDict" -> OrderedNS
      [] OTHER -> DictNS

\* self.__class__.__dict__.keys(): the names the class body itself defines
ClassDictKeys(cls) ==
    CASE cls = "BeneDict" ->
            Range(SubSeq(MethodSeq, 9, Len(MethodSeq))) \cup Range(ProtectedSeq) \cup
            {"__module__", "__doc__", "__init__", "__setattr__", "__setitem__",
             "__getstate__", "__setstate__", "__str__", "__dict__", "__weakref__"}
      [] cls = "Config" -> {"__module__", "__getattr__", "extend", "__doc__"}
      [] cls = "MyClass" -> {"__module__", "__doc__"} \cup DOMAIN ClassData(cls)
      [] OTHER -> {}

-----------------------------------------------------------------------------
(* Attribute machinery of the object model *)

\* object.__setattr__(self, name, value): writes the instance __dict__
ObjectSetAttr(self, name, value) ==
    IF ~IsStrName(name) THEN Raise("TypeError")
    ELSE IF name = "__class__" THEN Raise("TypeError")
    ELSE Ok([self EXCEPT !.at = Put(self.at, name, value)])

\* dict.__setitem__(self, name, value): writes the backing mapping
DictSetItem(self, name, value) == Ok([self EXCEPT !.kv = Put(self.kv, name, value)])

\* object.__getattribute__: instance __dict__, then the class namespace
ObjectGetAttribute(self, name) ==
    IF ~IsStrName(name) THEN Raise("TypeError")
    ELSE IF name \in DOMAIN self.at THEN Ok(self.at[name])
    ELSE IF name \in DOMAIN ClassData(self.cls) THEN Ok(ClassData(self.cls)[name])
    ELSE IF name \in DOMAIN ClassNS(self.cls) THEN Ok(MethodV(ClassNS(self.cls)[name]))
    ELSE Raise("AttributeError")

\* Config.__getattr__ (called when the normal lookup fails)
OnAttributeError(r, handled) == IF r.err = "AttributeError" THEN handled ELSE r

Config_getattr(self, key) ==
    OnAttributeError(ObjectGetAttribute(self, key),
                     RaiseMsg("ConfigError", <<"config key \"", key, "\" missing.">>))

\* getattr(self, name)
GetAttr(self, name) ==
    IF self.cls = "Config"
    THEN OnAttributeError(ObjectGetAttribute(self, name), Config_getattr(self, name))
    ELSE ObjectGetAttribute(self, name)

\* self[name]
GetItem(self, name) ==
    IF name \in DOMAIN self.kv THEN Ok(self.kv[name]) ELSE Raise("KeyError")

-----------------------------------------------------------------------------
(* BeneDict (benedict/__init__.py) and OrderedBeneDict (benedict/ordered.py) *)

RECURSIVE SetAttr(_, _, _), Instantiate(_, _), SetItems(_, _, _),
          ConvertElems(_, _), SetClassAttrs(_, _)

\* the element comprehension of __setattr__: cls(x) if isinstance(x, dict) else x
ConvertElems(cls, e) ==
    IF e = <<>> THEN Ok(<<>>)
    ELSE AndThen(IF IsDictV(Head(e)) THEN Instantiate(cls, Head(e)) ELSE Ok(Head(e)),
                 LAMBDA h : AndThen(ConvertElems(cls, Tail(e)),
                                    LAMBDA t : Ok(<<h>> \o t)))

\* variant: no name is refused
BeneDict_is_protected_never(name) == FALSE

BeneDict_is_protected(name) == name \in ProtectedNames

\* BeneDict.__setattr__ builds a list whatever the kind of the sequence given
BeneDict_seq_kind(value) == "list"

BeneDict_normalize(cls, value) ==
    IF IsSeqV(value)
    THEN AndThen(ConvertElems(cls, value.e),
                 LAMBDA e : Ok(SeqOfKind(BeneDict_seq_kind(value), e)))
    ELSE IF IsDictV(value) THEN Instantiate(cls, value)
    ELSE Ok(value)

\* variant: the value is stored as an attribute only
BeneDict_store_attr_only(self, name, value) == ObjectSetAttr(self, name, value)

BeneDict_store(self, name, value) ==
    AndThen(ObjectSetAttr(self, name, value),
            LAMBDA s : DictSetItem(s, name, value))

BeneDict_setattr(self, name, value) ==
    IF BeneDict_is_protected(name) THEN Raise("ValueError")
    ELSE AndThen(BeneDict_normalize(self.cls, value),
                 LAMBDA v : BeneDict_store(self, name, v))

OrderedBeneDict_is_protected(name) == name \in OrderedProtected

OrderedBeneDict_normalize(cls, value) ==
    IF IsSeqV(value)
    THEN AndThen(ConvertElems(cls, value.e),
                 LAMBDA e : Ok(SeqOfKind(value.t, e)))
    ELSE IF IsDictV(value) THEN Instantiate(cls, value)
    ELSE Ok(value)

OrderedBeneDict_store(self, name, value) ==
    AndThen(IF IsStrName(name) THEN ObjectSetAttr(self, name, value) ELSE Ok(self),
            LAMBDA s : DictSetItem(s, name, value))

OrderedBeneDict_setattr(self, name, value) ==
    IF OrderedBeneDict_is_protected(name) THEN Raise("ValueError")
    ELSE AndThen(OrderedBeneDict_normalize(self.cls, value),
                 LAMBDA v : OrderedBeneDict_store(self, name, v))

\* self.__setattr__(name, value), which is also self.__setitem__
SetAttr(self, name, value) ==
    IF self.cls = "OrderedBeneDict"
    THEN OrderedBeneDict_setattr(self, name, value)
    ELSE BeneDict_setattr(self, name, value)

\* for k, v in items: setattr(self, k, v)
SetItems(self, kv, keys) ==
    IF keys = <<>> THEN Ok(self)
    ELSE AndThen(SetAttr(self, Head(keys), kv[Head(keys)]),
                 LAMBDA s : SetItems(s, kv, Tail(keys)))

\* for k in self.__class__.__dict__.keys(): setattr(self, k, getattr(self, k))
SetClassAttrs(self, keys) ==
    IF keys = <<>> THEN Ok(self)
    ELSE AndThen(GetAttr(self, Head(keys)),
                 LAMBDA g : AndThen(SetAttr(self, Head(keys), g),
                                    LAMBDA s : SetClassAttrs(s, Tail(keys))))

\* the class attributes __init__ copies into the instance
ClassAttrsOf(cls) ==
    SelectSeq(KeyOrder,
              LAMBDA k : k \in ClassDictKeys(cls) /\ ~(IsDunder(k) \/ k \in NativeNames))
BeneDictClassAttrs == ClassAttrsOf("BeneDict")
ConfigClassAttrs == ClassAttrsOf("Config")

BeneDict_init(cls, d) ==
    AndThen(SetItems(Obj(cls, EmptyMap, EmptyMap), d.kv, KeysInOrder(d.kv)),
            LAMBDA s : SetClassAttrs(s, IF cls = "Config" THEN ConfigClassAttrs
                                        ELSE IF cls = "MyClass" THEN ClassAttrsOf(cls)
                                        ELSE BeneDictClassAttrs))

OrderedBeneDict_init(cls, d) ==
    SetItems(Obj(cls, EmptyMap, EmptyMap), d.kv, KeysInOrder(d.kv))

\* cls(d)
Instantiate(cls, d) ==
    IF cls = "OrderedBeneDict" THEN OrderedBeneDict_init(cls, d) ELSE BeneDict_init(cls, d)

\* dict.update(d, m): the items of m go into the backing mapping as they are
dict_update(d, m) ==
    Ok([d EXCEPT !.kv = [k \in DOMAIN m \cup DOMAIN d.kv |->
                            IF k \in DOMAIN m THEN m[k] ELSE d.kv[k]]])

\* cls(d, **kwargs): BeneDict.__init__ updates d itself with the keyword
\* fields before reading it; OrderedBeneDict.__init__ sets them on the new
\* tree after the items of d.  Construct_source is d as the call leaves it.
Construct_source(cls, d, kwargs) ==
    IF cls = "OrderedBeneDict" \/ DOMAIN kwargs = {} THEN d
    ELSE dict_update(d, kwargs).val

Construct(cls, d, kwargs) ==
    IF cls = "OrderedBeneDict"
    THEN AndThen(OrderedBeneDict_init(cls, d),
                 LAMBDA s : SetItems(s, kwargs, KeysInOrder(kwargs)))
    ELSE BeneDict_init(cls, Construct_source(cls, d, kwargs))

\* builtin_update: dict.update on a BeneDict; OrderedDict.update runs
\* self[key] = value for each item, which is __setattr__
builtin_update(self, m) ==
    IF self.cls = "OrderedBeneDict" THEN SetItems(self, m, KeysInOrder(m))
    ELSE dict_update(self, m)

\* builtin_pop: dict.pop / OrderedDict.pop take the key out of the backing
\* mapping; the instance __dict__ is not theirs
builtin_pop(self, key) ==
    IF key \notin DOMAIN self.kv THEN Raise("KeyError")
    ELSE Ok([self EXCEPT !.kv = [k \in DOMAIN self.kv \ {key} |-> self.kv[k]]])

\* builtin_popitem: the last item in iteration order
builtin_popitem(self) ==
    IF DOMAIN self.kv = {} THEN Raise("KeyError")
    ELSE builtin_pop(self, KeysInOrder(self.kv)[Len(KeysInOrder(self.kv))])

\* builtin_clear
builtin_clear(self) == Ok([self EXCEPT !.kv = EmptyMap])

\* builtin_deepcopy: BeneDict(self) on a BeneDict or a subtype of it,
\* self.__class__(self) on an OrderedBeneDict
builtin_deepcopy(self) ==
    IF self.cls = "OrderedBeneDict" THEN Instantiate(self.cls, self)
    ELSE Instantiate("BeneDict", self)

-----------------------------------------------------------------------------
(* Conversion back to plain containers *)

RECURSIVE ezdict_to_dict(_), benedict_to_dict(_, _), PyEq(_, _)

\* variant: sequences are not carried over
ezdict_to_dict_no_sequences(easy_dict) ==
    DictV([k \in DOMAIN easy_dict.kv |->
             IF IsSeqV(easy_dict.kv[k]) THEN SeqOfKind(easy_dict.kv[k].t, <<>>)
             ELSE easy_dict.kv[k]])

ezdict_to_dict(easy_dict) ==
    DictV([k \in DOMAIN easy_dict.kv |->
             LET value == easy_dict.kv[k]
             IN IF IsBeneDict(value) THEN ezdict_to_dict(value)
                ELSE IF IsSeqV(value)
                THEN SeqOfKind(value.t,
                         [i \in DOMAIN value.e |->
                             IF IsBeneDict(value.e[i])
                             THEN ezdict_to_dict(value.e[i])
                             ELSE value.e[i]])
                ELSE value])

IsAttributeTree(v) == IsBeneDict(v) \/ IsOrderedBeneDict(v)

\* benedict.core.benedict_to_dict
benedict_to_dict(D, to_type) ==
    Obj(to_type,
        [k \in DOMAIN D.kv |->
             LET value == D.kv[k]
             IN IF IsAttributeTree(value) THEN benedict_to_dict(value, to_type)
                ELSE IF IsSeqV(value)
                THEN SeqOfKind(value.t,
                         [i \in DOMAIN value.e |->
                             IF IsAttributeTree(value.e[i])
                             THEN benedict_to_dict(value.e[i], to_type)
                             ELSE value.e[i]])
                ELSE value],
        EmptyMap)

benedict_to_ordereddict(D) == benedict_to_dict(D, "OrderedDict")

\* self.to_dict() of either class
ToDict(self) ==
    IF self.cls = "OrderedBeneDict" THEN benedict_to_ordereddict(self)
    ELSE ezdict_to_dict(self)

\* Python's ==: mappings compare by keys and values whatever their class,
\* sequences by kind, length and elements
PyEq(x, y) ==
    IF IsDictV(x) /\ IsDictV(y)
    THEN DOMAIN x.kv = DOMAIN y.kv /\ \A k \in DOMAIN x.kv : PyEq(x.kv[k], y.kv[k])
    ELSE IF IsSeqV(x) /\ IsSeqV(y)
    THEN x.t = y.t /\ Len(x.e) = Len(y.e) /\ \A i \in DOMAIN x.e : PyEq(x.e[i], y.e[i])
    ELSE IF x.t = "bool" /\ y.t = "int" THEN y.i = (IF x.b THEN 1 ELSE 0)
    ELSE IF x.t = "int" /\ y.t = "bool" THEN x.i = (IF y.b THEN 1 ELSE 0)
    ELSE x = y

-----------------------------------------------------------------------------
(* Inputs of the container operations *)

A1 == DictV("a" :> IntV(1))
Yo == StrV(<<"y", "o">>)

SetValues ==
    { IntV(1), A1,
      ListV(<<A1, IntV(1)>>),
      TupleV(<<A1>>),
      ListV(<<ListV(<<A1>>)>>),
      DictV("builtin_keys" :> IntV(1)),
      DictV("-13" :> Yo),
      ListV(<<DictV("-13" :> A1)>>) }

SetNames == {"a", "keys", "builtin_keys", "-13", "__class__"}

Variants == {"BeneDict", "OrderedBeneDict"}

Sources ==
    {DictV(f) : f \in UNION {[K -> SetValues] :
                    K \in {K \in SUBSET SetNames : Cardinality(K) <= MaxKeys}}}

SetOps == {"SetField", "SetKey"}

-----------------------------------------------------------------------------
(* The container as a state machine: a tree is constructed, then set.      *)
(* last records the latest operation: its name, the key it was given, the  *)
(* exception it raised ("" for none) and, for a construction, the source.  *)

Constructed(cls, m, r) ==
    /\ tree = (IF r.err = "" THEN r.val ELSE [t |-> "none", cls |-> cls])
    /\ last = [op |-> "Construct", name |-> "", err |-> r.err, arg |-> m]

InitTree ==
    /\ \E cls \in Variants, m \in Sources : Constructed(cls, m, Instantiate(cls, m))
    /\ cfg = NoneV /\ dflt = NoneV /\ out = NoneV
    /\ src = NoneV /\ copy = NoneV /\ alias = {}

Fits(r) == IF r.err # "" THEN TRUE ELSE Cardinality(DOMAIN r.val.kv) <= MaxKeys

\* the effect of a Set that returned or raised r
SetDone(op, name, r) ==
    /\ Fits(r)
    /\ tree' = (IF r.err = "" THEN r.val ELSE tree)
    /\ last' = [op |-> op, name |-> name, err |-> r.err, arg |-> NoneV]
    /\ UNCHANGED <<cfg, dflt, out, src, copy, alias>>

\* tree.name = value, i.e. setattr(tree, name, value)
SetField(name, value) ==
    /\ IsDictV(tree)
    /\ SetDone("SetField", name,
               IF IsStrName(name) THEN SetAttr(tree, name, value) ELSE Raise("TypeError"))

\* tree[name] = value
SetKey(name, value) ==
    /\ IsDictV(tree)
    /\ SetDone("SetKey", name, SetAttr(tree, name, value))

NextTree ==
    \/ \E name \in SetNames, value \in SetValues : SetField(name, value)
    \/ \E name \in SetNames, value \in SetValues : SetKey(name, value)

Spec == InitTree /\ [][NextTree]_vars

-----------------------------------------------------------------------------
(* Strings of benedict/config.py: a string is the sequence of its characters *)

LowerChar(c) ==
    CASE c = "E" -> "e" [] c = "I" -> "i" [] c = "M" -> "m" [] c = "N" -> "n"
      [] c = "T" -> "t" [] c = "U" -> "u" [] c = "X" -> "x" [] c = "Y" -> "y"
      [] OTHER -> c

\* str.lower
Lower(s) == [i \in DOMAIN s |-> LowerChar(s[i])]

RECURSIVE Strip(_), Split(_, _), Join(_, _)

\* str.strip
Strip(s) ==
    IF s = <<>> THEN s
    ELSE IF Head(s) = " " THEN Strip(Tail(s))
    ELSE IF s[Len(s)] = " " THEN Strip(SubSeq(s, 1, Len(s) - 1))
    ELSE s

\* str.split(sep): the pieces between the occurrences of sep
Split(s, sep) ==
    IF \A i \in DOMAIN s : s[i] # sep THEN <<s>>
    ELSE <<SubSeq(s, 1, (CHOOSE i \in DOMAIN s :
                            s[i] = sep /\ \A j \in 1..(i - 1) : s[j] # sep) - 1)>>
         \o Split(SubSeq(s, 1 + (CHOOSE i \in DOMAIN s :
                                    s[i] = sep /\ \A j \in 1..(i - 1) : s[j] # sep),
                         Len(s)), sep)

\* sep.join(parts), the parts kept as tokens
Join(parts, sep) ==
    IF parts = <<>> THEN <<>>
    ELSE IF Len(parts) = 1 THEN parts
    ELSE <<Head(parts), sep>> \o Join(Tail(parts), sep)

\* _enum_marker = re.compile('_enum\[(.*)\]_'), used with match(): anchored at
\* the start only, the group greedy up to the last "]_"
EnumOpen == <<"_", "e", "n", "u", "m", "[">>
EnumCloses(s) == {j \in 7..(Len(s) - 1) : s[j] = "]" /\ s[j + 1] = "_"}
_enum_marker_match(s) ==
    Len(s) >= 8 /\ SubSeq(s, 1, 6) = EnumOpen /\ EnumCloses(s) # {}
_enum_marker_group(s) ==
    SubSeq(s, 7, (CHOOSE j \in EnumCloses(s) : \A k \in EnumCloses(s) : k <= j) - 1)

\* the placeholders
P_object == <<"_", "o", "b", "j", "e", "c", "t", "_">>
P_singleton == <<"_", "s", "i", "n", "g", "l", "e", "t", "o", "n", "_">>
P_list == <<"_", "l", "i", "s", "t", "_">>
P_dict == <<"_", "d", "i", "c", "t", "_">>
P_int == <<"_", "i", "n", "t", "_">>
P_float == <<"_", "f", "l", "o", "a", "t", "_">>
P_num == <<"_", "n", "u", "m", "_">>
P_str == <<"_", "s", "t", "r", "_">>
P_bool == <<"_", "b", "o", "o", "l", "_">>
SimplePlaceholders ==
    {P_object, P_singleton, P_list, P_dict, P_int, P_float, P_num, P_str, P_bool}

-----------------------------------------------------------------------------
(* benedict/config.py *)

\* an exception leaves .val empty where it is raised; the loop of
\* _fill_default_config that it passes through records the mapping as filled
\* so far and the path of the key being filled
Blame(r, config, path) ==
    IF r.err = "" THEN r
    ELSE IF r.val # NoneV THEN r
    ELSE [r EXCEPT !.val = [cfg |-> config, at |-> path]]

\* the failure of a nested fill, seen from the mapping that holds the sub-tree
Outer(r, config, key) ==
    IF r.err = "" THEN r
    ELSE [r EXCEPT !.val = [cfg |-> [config EXCEPT !.kv = Put(config.kv, key, r.val.cfg)],
                            at |-> r.val.at]]

_trace_key(dict_trace, key) ==
    IF \A i \in DOMAIN (dict_trace \o <<key>>) : IsStrName((dict_trace \o <<key>>)[i])
    THEN Ok(<<"key \"">> \o Join(dict_trace \o <<key>>, ".") \o <<"\" ">>)
    ELSE Raise("TypeError")

\* the checker _req_type_check returns: None, a type test, or an enum test
\* that holds the options
_req_type_check(value) ==
    IF value.t # "str" THEN Ok(NoneV)
    ELSE IF Lower(value.s) \in SimplePlaceholders
    THEN Ok([t |-> "checker", p |-> Lower(value.s)])
    ELSE IF _enum_marker_match(Lower(value.s))
    THEN IF _enum_marker_group(Lower(value.s)) = <<>>
         THEN RaiseMsg("ConfigError", <<"_enum[...]_ cannot be empty">>)
         ELSE Ok([t |-> "checker", p |-> EnumOpen,
                  enum_options |-> [i \in DOMAIN Split(_enum_marker_group(Lower(value.s)), ",")
                                      |-> Strip(Split(_enum_marker_group(Lower(value.s)), ",")[i])]])
    ELSE Ok(NoneV)

\* checker(x): the lambda returned by _req_type_check
Checks(checker, x) ==
    CASE checker.p = P_object -> TRUE
      [] checker.p = P_singleton -> ~(x.t = "list" \/ IsDictV(x))
      [] checker.p = P_list -> x.t = "list"
      [] checker.p = P_dict -> IsDictV(x)
      [] checker.p = P_int -> x.t \in {"int", "bool"}
      [] checker.p = P_float -> x.t = "float"
      [] checker.p = P_num -> x.t \in {"int", "bool", "float"}
      [] checker.p = P_str -> x.t = "str"
      [] checker.p = P_bool -> x.t = "bool"
      [] OTHER -> x.t = "str" /\ \E i \in DOMAIN checker.enum_options :
                                     checker.enum_options[i] = x.s

_is_req(value) == AndThen(_req_type_check(value), LAMBDA c : Ok(c # NoneV))

RECURSIVE _has_req_items(_, _)

_has_req_items(config, keys) ==
    IF keys = <<>> THEN Ok(FALSE)
    ELSE AndThen(_is_req(config.kv[Head(keys)]),
           LAMBDA req :
             IF req THEN Ok(TRUE)
             ELSE AndThen(IF IsDictV(config.kv[Head(keys)])
                          THEN _has_req_items(config.kv[Head(keys)],
                                              KeysInOrder(config.kv[Head(keys)].kv))
                          ELSE Ok(FALSE),
                    LAMBDA has : IF has THEN Ok(TRUE)
                                 ELSE _has_req_items(config, Tail(keys))))

_has_req(config) == _has_req_items(config, KeysInOrder(config.kv))


\* the words _raise_req_error finds for a placeholder
ReqWords(value) ==
    CASE value = P_object -> <<"filled">>
      [] value = P_singleton -> <<"a singleton (non-list/dict)">>
      [] value = P_list -> <<"a list">>
      [] value = P_dict -> <<"a dict">>
      [] value = P_int -> <<"an integer">>
      [] value = P_float -> <<"a float">>
      [] value = P_num -> <<"a numeric value">>
      [] value = P_str -> <<"a string">>
      [] value = P_bool -> <<"a boolean">>
      [] OTHER -> <<"an enum in [">> \o _enum_marker_group(value) \o <<"]">>

_raise_req_error(key, value, dict_trace, prefix_msg) ==
    AndThen(_trace_key(dict_trace, key),
            LAMBDA trace :
              RaiseMsg("ConfigError",
                       <<prefix_msg, " ">> \o trace \o <<"must be ">>
                           \o ReqWords(Lower(value.s)) \o <<".">>))

RECURSIVE Repr(_), ReprItems(_, _), ReprElems(_)

\* str(value) as str.format writes it into a message
Repr(v) ==
    CASE v.t = "none" -> <<"None">>
      [] v.t = "bool" -> <<IF v.b THEN "True" ELSE "False">>
      [] v.t = "int" -> <<ToString(v.i)>>
      [] v.t = "float" -> <<ToString(v.f)>>
      [] v.t = "str" -> <<"'">> \o v.s \o <<"'">>
      [] v.t = "list" -> <<"[">> \o ReprElems(v.e) \o <<"]">>
      [] v.t = "tuple" -> <<"(">> \o ReprElems(v.e) \o <<")">>
      [] v.t = "dict" -> <<"{">> \o ReprItems(v, KeysInOrder(v.kv)) \o <<"}">>
      [] OTHER -> <<"<bound method>">>

ReprElems(e) ==
    IF e = <<>> THEN <<>>
    ELSE Repr(Head(e)) \o (IF Len(e) = 1 THEN <<>> ELSE <<", ">> \o ReprElems(Tail(e)))

ReprItems(d, keys) ==
    IF keys = <<>> THEN <<>>
    ELSE (IF IsStrName(Head(keys)) THEN <<"'", Head(keys), "'">> ELSE <<Head(keys)>>)
         \o <<": ">> \o Repr(d.kv[Head(keys)])
         \o (IF Len(keys) = 1 THEN <<>> ELSE <<", ">> \o ReprItems(d, Tail(keys)))

\* config[key] = value, for a plain mapping and for a tree
SetItemOf(config, key, value) ==
    IF IsAttributeTree(config) THEN SetAttr(config, key, value)
    ELSE DictSetItem(config, key, value)

RECURSIVE _fill_default_config(_, _, _), FillItems(_, _, _, _)

\* the branch "key not in config"
FillAbsent(config, key, default_value, dict_trace) ==
    AndThen(_is_req(default_value),
      LAMBDA req :
        IF req
        THEN _raise_req_error(key, default_value, dict_trace, "Required entry missing:")
        ELSE AndThen(IF IsDictV(default_value) THEN _has_req(default_value) ELSE Ok(FALSE),
               LAMBDA has :
                 IF has
                 THEN AndThen(_trace_key(dict_trace, key),
                        LAMBDA trace :
                          RaiseMsg("ConfigError",
                                   <<"Sub-dict under key \"">> \o trace
                                       \o <<"\" contains a required config: ">>
                                       \o Repr(default_value) \o <<".">>))
                 ELSE SetItemOf(config, key, default_value)))

\* the branch "key in config", value = config[key]
FillPresent(config, key, value, default_value, dict_trace) ==
    AndThen(_is_req(default_value),
      LAMBDA req :
        IF req
        THEN AndThen(_is_req(value),
               LAMBDA inherited :
                 IF inherited
                 THEN IF value # default_value
                      THEN AndThen(_trace_key(dict_trace, key),
                             LAMBDA trace :
                               RaiseMsg("ConfigError",
                                        <<"inherited ">> \o trace \o <<": \"">> \o value.s
                                            \o <<"\" must match default \"">>
                                            \o default_value.s \o <<"\"">>))
                      ELSE Ok(config)
                 ELSE AndThen(_req_type_check(default_value),
                        LAMBDA checker :
                          IF ~Checks(checker, value)
                          THEN _raise_req_error(key, default_value, dict_trace, "Wrong type:")
                          ELSE Ok(config)))
        ELSE IF IsDictV(value) /\ ~IsDictV(default_value)
        THEN AndThen(_trace_key(dict_trace, key),
               LAMBDA trace :
                 RaiseMsg("ConfigError",
                          trace \o <<"must be a singleton instead of a sub-dict">>))
        ELSE IF IsDictV(default_value)
        THEN IF ~IsDictV(value)
             THEN AndThen(_trace_key(dict_trace, key),
                    LAMBDA trace :
                      RaiseMsg("ConfigError",
                               trace \o <<"must have a sub-dict instead of a singleton">>))
             ELSE AndThen(Outer(_fill_default_config(value, default_value,
                                                     dict_trace \o <<key>>),
                                config, key),
                          LAMBDA sub : SetItemOf(config, key, sub))
        ELSE Ok(config))

\* the loop over default_config.items()
FillItems(config, default_config, dict_trace, keys) ==
    IF keys = <<>> THEN Ok(config)
    ELSE AndThen(Blame(IF Head(keys) \notin DOMAIN config.kv
                       THEN FillAbsent(config, Head(keys),
                                       default_config.kv[Head(keys)], dict_trace)
                       ELSE FillPresent(config, Head(keys), config.kv[Head(keys)],
                                        default_config.kv[Head(keys)], dict_trace),
                       config, dict_trace \o <<Head(keys)>>),
                 LAMBDA filled : FillItems(filled, default_config, dict_trace, Tail(keys)))

_fill_default_config(config, default_config, dict_trace) ==
    FillItems(config, default_config, dict_trace, KeysInOrder(default_config.kv))

\* Config(mapping)
Config_init(d) == Instantiate("Config", d)

extend_config(config, default_config) ==
    AndThen(_fill_default_config(config, default_config, <<>>), Config_init)

\* attribute access along a path: obj.k1.k2...
RECURSIVE GetPath(_, _)

GetPath(obj, path) ==
    IF path = <<>> THEN Ok(obj)
    ELSE IF ~IsDictV(obj) THEN Raise("AttributeError")
    ELSE AndThen(GetAttr(obj, Head(path)), LAMBDA v : GetPath(v, Tail(path)))

-----------------------------------------------------------------------------
(* Objects held by reference.  A Python name or slot holds a reference: an  *)
(* assignment c[k] = v makes c[k] and v the same object, and a later write  *)
(* into that object is seen through both.  Values here are records, so the  *)
(* sharing is kept apart, as the set of paths at which two values hold one  *)
(* object, and a write below a shared path is applied to both values.      *)

IsPrefix(p, q) == Len(p) <= Len(q) /\ SubSeq(q, 1, Len(p)) = p

IsMutable(v) == v.t \in {"dict", "list"}

RECURSIVE ItemAt(_, _), SetItemAt(_, _, _, _), StoredByReference(_, _, _)

\* d[k1]...[kn]; the step "[0]" is the first element of a sequence
ItemAt(d, path) ==
    IF path = <<>> THEN Ok(d)
    ELSE IF IsSeqV(d)
    THEN IF Head(path) = "[0]" /\ d.e # <<>> THEN ItemAt(d.e[1], Tail(path))
         ELSE Raise("TypeError")
    ELSE IF ~IsDictV(d) THEN Raise("TypeError")
    ELSE IF Head(path) \notin DOMAIN d.kv THEN Raise("KeyError")
    ELSE ItemAt(d.kv[Head(path)], Tail(path))

\* the holder d after the object it holds under key h has become sub; the
\* attribute of that name is the same object when it holds the same value
Holding(d, h, sub) ==
    [d EXCEPT !.kv = Put(d.kv, h, sub),
              !.at = IF h \in DOMAIN d.at /\ d.at[h] = d.kv[h]
                     THEN Put(d.at, h, sub) ELSE d.at]

\* d[k1]...[kn][key] = value: the mapping found at the path is written in
\* place, by its own __setitem__
SetItemAt(d, path, key, value) ==
    IF path = <<>> THEN (IF IsDictV(d) THEN SetItemOf(d, key, value) ELSE Raise("TypeError"))
    ELSE IF IsSeqV(d)
    THEN IF Head(path) = "[0]" /\ d.e # <<>>
         THEN AndThen(SetItemAt(d.e[1], Tail(path), key, value),
                      LAMBDA sub : Ok([d EXCEPT !.e = [d.e EXCEPT ![1] = sub]]))
         ELSE Raise("TypeError")
    ELSE IF ~IsDictV(d) THEN Raise("TypeError")
    ELSE IF Head(path) \notin DOMAIN d.kv THEN Raise("KeyError")
    ELSE AndThen(SetItemAt(d.kv[Head(path)], Tail(path), key, value),
                 LAMBDA sub : Ok(Holding(d, Head(path), sub)))

\* the paths at which _fill_default_config ran `config[key] = default_value`
\* with a mutable default: `before` is the config passed in, `after` the
\* config it left.  Only that statement adds a key to a config.
StoredByReference(before, after, path) ==
    UNION {IF k \notin DOMAIN before.kv
           THEN IF IsMutable(after.kv[k]) THEN {path \o <<k>>} ELSE {}
           ELSE IF IsDictV(before.kv[k]) /\ IsDictV(after.kv[k])
           THEN StoredByReference(before.kv[k], after.kv[k], path \o <<k>>)
           ELSE {} : k \in DOMAIN after.kv}

-----------------------------------------------------------------------------
(* The merge as a state machine: a config and defaults are drawn, merged by *)
(* extend_config, and the validated object is then read along a path; the   *)
(* caller may go on writing into its config and into the returned tree.     *)
(* alias holds the paths at which config and defaults are one object.       *)

P_INT == <<"_", "I", "N", "T", "_">>
P_enum_Xy == <<"_", "e", "n", "u", "m", "[", "X", ",", " ", "y", "]", "_">>
P_ENUM_x == <<"_", "E", "N", "U", "M", "[", "x", "]", "_">>
P_enum_empty == <<"_", "e", "n", "u", "m", "[", "]", "_">>

CfgLeaves ==
    {IntV(1), BoolV(TRUE), StrV(<<"X">>), StrV(<<"x">>), StrV(P_int),
     ListV(<<IntV(1)>>), TupleV(<<IntV(1)>>)}

DfltLeaves ==
    {IntV(2), StrV(P_int), StrV(P_INT), StrV(P_str), StrV(P_bool), StrV(P_float),
     StrV(P_num), StrV(P_list), StrV(P_dict), StrV(P_singleton), StrV(P_object),
     StrV(P_enum_Xy), StrV(P_ENUM_x), StrV(P_enum_empty)}

NestKeys == {"a", "-13"}

RECURSIVE CfgValues(_), DfltValues(_)

\* the values of nesting depth at most d
CfgValues(d) ==
    IF d = 0 THEN CfgLeaves
    ELSE CfgLeaves \cup {DictV(EmptyMap)}
         \cup {DictV(k :> v) : k \in NestKeys, v \in CfgValues(d - 1)}

DfltValues(d) ==
    IF d = 0 THEN DfltLeaves
    ELSE DfltLeaves \cup {DictV(EmptyMap)}
         \cup {DictV(k :> v) : k \in NestKeys, v \in DfltValues(d - 1)}
         \cup {DictV((k :> v) @@ ("c" :> IntV(3))) : k \in NestKeys, v \in DfltValues(d - 1)}

Configs == {v \in CfgValues(MaxDepth) : IsDictV(v)}
Defaults == {v \in DfltValues(MaxDepth) : IsDictV(v)}

AccessKeys == {"a", "c", "mode"}
AccessPaths == UNION {[1..n -> AccessKeys] : n \in 1..MaxDepth}

InitMerge ==
    /\ cfg \in Configs
    /\ dflt \in Defaults
    /\ out = NoneV
    /\ tree = NoneV /\ src = NoneV /\ copy = NoneV /\ alias = {}
    /\ last = [op |-> "Init", name |-> <<>>, err |-> "", arg |-> NoneV]

\* what a call of extend_config leaves: `filled` is the outcome of
\* _fill_default_config, r the outcome of the whole call
MergeDone(filled, r) ==
    /\ cfg' = (IF filled.err = "" THEN filled.val ELSE filled.val.cfg)
    /\ alias' = StoredByReference(cfg, IF filled.err = "" THEN filled.val
                                       ELSE filled.val.cfg, <<>>)
    /\ out' = [t |-> "result", err |-> r.err, msg |-> r.msg,
               val |-> (IF r.err = "" THEN r.val ELSE NoneV),
               filled |-> (filled.err = ""),
               at |-> (IF filled.err = "" THEN <<>> ELSE filled.val.at)]
    /\ last' = [op |-> "Merge", name |-> <<>>, err |-> r.err, arg |-> cfg]
    /\ UNCHANGED <<dflt, tree, src, copy>>

Merge ==
    /\ out = NoneV
    /\ MergeDone(_fill_default_config(cfg, dflt, <<>>), extend_config(cfg, dflt))

AccessDone(path, r) ==
    /\ last' = [op |-> "Access", name |-> path, err |-> r.err, arg |-> r]
    /\ UNCHANGED <<tree, cfg, dflt, out, src, copy, alias>>

Access(path) ==
    /\ out # NoneV
    /\ out.err = ""
    /\ AccessDone(path, GetPath(out.val, path))

\* the objects the caller writes into after the merge
\* (the path to the mapping written, and the key written there)
Writes == {<<<<>>, "a">>, <<<<"a">>, "b">>}
WriteValues == {IntV(9)}

\* config[k1]...[kn][key] = value on the caller's config after the merge: the
\* write lands in defaults too when the mapping written is, or lies in, an
\* object both hold
SetCfgDone(path, key, value, r) ==
    /\ cfg' = (IF r.err = "" THEN r.val ELSE cfg)
    /\ dflt' = (IF r.err = "" /\ \E q \in alias : IsPrefix(q, path)
                THEN SetItemAt(dflt, path, key, value).val ELSE dflt)
    /\ alias' = (IF r.err # "" \/ \E q \in alias : IsPrefix(q, path)
                 THEN alias
                 ELSE {q \in alias : ~IsPrefix(path \o <<key>>, q)})
    /\ last' = [op |-> "SetCfg", name |-> path \o <<key>>, err |-> r.err, arg |-> NoneV]
    /\ UNCHANGED <<tree, out, src, copy>>

SetCfg(path, key, value) ==
    /\ out # NoneV
    /\ SetCfgDone(path, key, value, SetItemAt(cfg, path, key, value))

\* Set on the returned tree, or on a sub-tree of it: Config(...) built the
\* tree and its sub-trees as new objects, so only the tree changes
SetOutDone(path, key, r) ==
    /\ out' = (IF r.err = "" THEN [out EXCEPT !.val = r.val] ELSE out)
    /\ last' = [op |-> "SetOut", name |-> path \o <<key>>, err |-> r.err, arg |-> NoneV]
    /\ UNCHANGED <<tree, cfg, dflt, src, copy, alias>>

SetOut(path, key, value) ==
    /\ out # NoneV
    /\ out.err = ""
    /\ SetOutDone(path, key, SetItemAt(out.val, path, key, value))

NextMerge ==
    \/ Merge
    \/ \E path \in AccessPaths : Access(path)
    \/ \E w \in Writes, value \in WriteValues : SetCfg(w[1], w[2], value)
    \/ \E w \in Writes, value \in WriteValues : SetOut(w[1], w[2], value)

SpecMerge == InitMerge /\ [][NextMerge]_vars

-----------------------------------------------------------------------------
(* The operations of a tree as a state machine: a tree is constructed from  *)
(* a source mapping, with or without keyword fields, and is then set at any *)
(* depth, updated, popped, cleared and deep-copied, while the caller goes   *)
(* on writing into the source.  src is the source as the caller sees it,    *)
(* copy the deep copy.  The sources hold no sequence in a sequence, so the  *)
(* constructor builds every container of the tree anew (a mapping by        *)
(* cls(value), a sequence by the comprehension) and src, tree and copy hold *)
(* no object in common.  A behaviour takes one deep copy, after any         *)
(* sequence of operations on the tree; from then on the tree, the copy and  *)
(* the source are written by Sets of Writes.                                *)

OpsClasses == {"BeneDict", "OrderedBeneDict", "Config", "MyClass"}

OpsSources ==
    {DictV(EmptyMap), A1, DictV("a" :> A1),
     DictV("a" :> ListV(<<A1, IntV(1)>>)), DictV("a" :> TupleV(<<A1, IntV(1)>>))}

\* the mappings given to update, and as keyword fields
UpdateArgs == {"b" :> A1, "a" :> IntV(9)}

OpsValues == WriteValues \cup {TupleV(<<A1>>)}
OpsWrites == Writes \cup {<<<<"a", "[0]">>, "b">>}

InitOps ==
    /\ src \in OpsSources
    /\ tree = NoneV /\ copy = NoneV
    /\ cfg = NoneV /\ dflt = NoneV /\ out = NoneV /\ alias = {}
    /\ last = [op |-> "Init", name |-> <<>>, err |-> "", arg |-> NoneV]

\* tree = cls(src, **kwargs)
OpsConstruct(cls, kwargs, r) ==
    /\ last.op = "Init"
    /\ src' = Construct_source(cls, src, kwargs)
    /\ tree' = (IF r.err = "" THEN r.val ELSE NoneV)
    /\ last' = [op |-> "Construct", name |-> <<>>, err |-> r.err, arg |-> kwargs]
    /\ UNCHANGED <<copy, cfg, dflt, out, alias>>

\* what an operation on the tree leaves
TreeDone(op, name, arg, r) ==
    /\ IsDictV(tree)
    /\ copy = NoneV \/ (op = "Set" /\ arg \in WriteValues /\ name \in {w[1] \o <<w[2]>> : w \in Writes})
    /\ tree' = (IF r.err = "" THEN r.val ELSE tree)
    /\ last' = [op |-> op, name |-> name, err |-> r.err, arg |-> arg]
    /\ UNCHANGED <<src, copy, cfg, dflt, out, alias>>

\* Set by field or by key (one function, __setitem__ = __setattr__) on the
\* tree or on the sub-tree a path leads to
OpsSet(w, value) ==
    TreeDone("Set", w[1] \o <<w[2]>>, value, SetItemAt(tree, w[1], w[2], value))

OpsUpdate(m) == TreeDone("update", KeysInOrder(m), m, builtin_update(tree, m))

OpsPop(key) == TreeDone("pop", <<key>>, NoneV, builtin_pop(tree, key))

OpsPopItem == TreeDone("popitem", <<>>, NoneV, builtin_popitem(tree))

OpsClear == TreeDone("clear", <<>>, NoneV, builtin_clear(tree))

\* copy = tree.builtin_deepcopy()
OpsDeepCopy(r) ==
    /\ IsDictV(tree)
    /\ copy = NoneV
    /\ copy' = (IF r.err = "" THEN r.val ELSE copy)
    /\ last' = [op |-> "DeepCopy", name |-> <<>>, err |-> r.err, arg |-> NoneV]
    /\ UNCHANGED <<src, tree, cfg, dflt, out, alias>>

\* Set on the deep copy, or on a sub-tree of it
OpsSetCopy(w, value, r) ==
    /\ IsDictV(copy)
    /\ copy' = (IF r.err = "" THEN r.val ELSE copy)
    /\ last' = [op |-> "SetCopy", name |-> w[1] \o <<w[2]>>, err |-> r.err, arg |-> value]
    /\ UNCHANGED <<src, tree, cfg, dflt, out, alias>>

\* the caller writes into the source after the construction
OpsSetSource(w, value, r) ==
    /\ IsDictV(copy)
    /\ src' = (IF r.err = "" THEN r.val ELSE src)
    /\ last' = [op |-> "SetSource", name |-> w[1] \o <<w[2]>>, err |-> r.err, arg |-> value]
    /\ UNCHANGED <<tree, copy, cfg, dflt, out, alias>>

NextOps ==
    \/ \E cls \in OpsClasses, kwargs \in UpdateArgs \cup {EmptyMap} :
           OpsConstruct(cls, kwargs, Construct(cls, src, kwargs))
    \/ \E w \in OpsWrites, value \in OpsValues : OpsSet(w, value)
    \/ \E m \in UpdateArgs : OpsUpdate(m)
    \/ \E m \in UpdateArgs : \E key \in DOMAIN m : OpsPop(key)
    \/ OpsPopItem
    \/ OpsClear
    \/ OpsDeepCopy(builtin_deepcopy(tree))
    \/ \E w \in Writes, value \in WriteValues :
           OpsSetCopy(w, value, SetItemAt(copy, w[1], w[2], value))
    \/ \E w \in Writes, value \in WriteValues :
           OpsSetSource(w, value, SetItemAt(src, w[1], w[2], value))

SpecOps == InitOps /\ [][NextOps]_vars

-----------------------------------------------------------------------------
(* Vocabulary of the properties *)

RECURSIVE MappingsIn(_), KeysIn(_), IsJSON(_)

\* every mapping held in v at any depth, v included
MappingsIn(v) ==
    IF IsDictV(v) THEN {v} \cup UNION {MappingsIn(v.kv[k]) : k \in DOMAIN v.kv}
    ELSE IF IsSeqV(v) THEN UNION {MappingsIn(v.e[i]) : i \in DOMAIN v.e}
    ELSE {}

TreesIn(v) == {m \in MappingsIn(v) : IsAttributeTree(m)}

\* every key of every mapping of v
KeysIn(v) == UNION {DOMAIN m.kv : m \in MappingsIn(v)}

\* what a JSON document denotes: scalars, lists, string-keyed mappings
IsJSON(v) ==
    IF IsDictV(v) THEN \A k \in DOMAIN v.kv : IsStrName(k) /\ IsJSON(v.kv[k])
    ELSE IF v.t = "list" THEN \A i \in DOMAIN v.e : IsJSON(v.e[i])
    ELSE v.t \in {"none", "bool", "int", "float", "str"}

\* the frozen aliases of a class, and the plain operations they alias
AliasNames(cls) == IF cls = "OrderedBeneDict" THEN OrderedProtected ELSE ProtectedNames
PlainOps(cls) == IF cls = "OrderedBeneDict" THEN DOMAIN OrderedBody ELSE Range(MethodSeq)
ClassBody(cls) == IF cls = "OrderedBeneDict" THEN OrderedBody ELSE BeneDictBody

\* a key no Set accepts: a frozen alias, or an attribute the object model owns
Refused(cls, k) == k \in AliasNames(cls) \/ IsDunder(k)

\* calling a bound method that takes no argument
CallNoArgs(m, self) ==
    CASE m.f \in {"dict.keys", "OrderedDict.keys"} -> DOMAIN self.kv
      [] m.f \in {"dict.values", "OrderedDict.values"} -> {self.kv[k] : k \in DOMAIN self.kv}
      [] m.f \in {"dict.items", "OrderedDict.items"} -> {<<k, self.kv[k]>> : k \in DOMAIN self.kv}
      [] m.f \in {"BeneDict.to_dict", "OrderedBeneDict.to_dict"} -> ToDict(self)
      [] OTHER -> m

-----------------------------------------------------------------------------
(* C1 *)

\* C1 (as stated): a Set, by field or by key, whose name is one of the plain
\* reserved operation names fails with a usage error and changes nothing.
C1_ReservedNameRefused ==
    [][(last'.op \in SetOps /\ last'.name \in Range(MethodSeq))
         => (last'.err = "ValueError" /\ tree' = tree)]_vars

\* C1 (amended): a Set whose name is a frozen alias builtin_<op> of the tree's
\* class fails with ValueError and leaves the tree as it was, and so would a
\* Set of every alias with every value on that tree; a plain operation name
\* is not refused: the Set stores under that key, and so would a Set of every
\* plain operation name on that tree.
C1_AliasNameRefused ==
    [][/\ (last'.op \in SetOps /\ last'.name \in AliasNames(tree.cls))
            => /\ last'.err = "ValueError" /\ tree' = tree
               /\ \A n \in AliasNames(tree.cls), v \in SetValues :
                      SetAttr(tree, n, v).err = "ValueError"
       /\ (last'.op \in SetOps /\ last'.name \in PlainOps(tree.cls) /\ last'.err = "")
            => /\ last'.name \in DOMAIN tree'.kv /\ last'.name \in DOMAIN tree'.at
               /\ \A n \in PlainOps(tree.cls) :
                      /\ SetAttr(tree, n, IntV(1)).err = ""
                      /\ SetAttr(tree, n, IntV(1)).val.kv[n] = IntV(1)]_vars

C1_Witness ==
    /\ last.op = "SetKey" /\ last.name = "builtin_keys" /\ last.err = "ValueError"
    /\ IsDictV(tree) /\ "keys" \in DOMAIN tree.kv

-----------------------------------------------------------------------------
(* C2 *)

\* C2: in every tree reached by Construct and Set, and in every sub-tree,
\* each alias builtin_<op> resolves to the operation the class body defined
\* under <op>, whatever the data stored under <op> or attempted under the
\* alias; no alias is a data key; calling builtin_keys, builtin_values,
\* builtin_items and builtin_to_dict gives the original results on the
\* current contents.
C2_AliasesFrozen ==
    IsDictV(tree) =>
        \A m \in TreesIn(tree) :
            /\ \A n \in PlainOps(m.cls) :
                  /\ _builtin_name(n) \notin DOMAIN m.kv
                  /\ GetAttr(m, _builtin_name(n)) = Ok(MethodV(ClassBody(m.cls)[n]))
            /\ CallNoArgs(GetAttr(m, "builtin_keys").val, m) = DOMAIN m.kv
            /\ CallNoArgs(GetAttr(m, "builtin_values").val, m)
                   = {m.kv[k] : k \in DOMAIN m.kv}
            /\ CallNoArgs(GetAttr(m, "builtin_items").val, m)
                   = {<<k, m.kv[k]>> : k \in DOMAIN m.kv}
            /\ CallNoArgs(GetAttr(m, "builtin_to_dict").val, m) = ToDict(m)

C2_Witness ==
    /\ last.op = "SetField" /\ last.name = "builtin_keys" /\ last.err = "ValueError"
    /\ IsDictV(tree) /\ "keys" \in DOMAIN tree.at
    /\ GetAttr(tree, "keys").val.t # "method"

-----------------------------------------------------------------------------
(* C5 *)

\* C5: every mapping held in the tree at any depth, under a key or inside a
\* sequence at any nesting of sequences, is a tree of the class of the tree
\* that holds it.
C5_AllMappingsWrapped ==
    IsDictV(tree) => \A m \in MappingsIn(tree) : m.cls = tree.cls

-----------------------------------------------------------------------------
(* C6 *)

\* C6 (as stated): Construct succeeds on every JSON-representable mapping and
\* to_dict of the result equals the mapping.
C6_RoundTripAll ==
    (last.op = "Construct" /\ IsJSON(last.arg))
        => (last.err = "" /\ PyEq(ToDict(tree), last.arg))

\* C6 (amended): the same for every JSON-representable mapping none of whose
\* keys, at any depth, is a frozen alias name or a special attribute name.
C6_RoundTrip ==
    (/\ last.op = "Construct" /\ IsJSON(last.arg)
     /\ \A k \in KeysIn(last.arg) : ~Refused(tree.cls, k))
        => (last.err = "" /\ PyEq(ToDict(tree), last.arg))

C6_Witness ==
    /\ last.op = "Construct" /\ last.err = "" /\ IsJSON(last.arg)
    /\ DOMAIN last.arg.kv = {"a", "keys"}
    /\ last.arg.kv["a"] = ListV(<<A1, IntV(1)>>)
    /\ last.arg.kv["keys"] = ListV(<<ListV(<<A1>>)>>)
    /\ IsBeneDict(tree)

-----------------------------------------------------------------------------
(* C7 *)

\* C7 (as stated): every key set holds one value that field access and key
\* lookup both return.
C7_BothStylesEveryKey ==
    IsDictV(tree) => \A k \in DOMAIN tree.kv : GetAttr(tree, k) = Ok(tree.kv[k])

\* C7 (amended): in the tree and every sub-tree, every string key set holds
\* one value that field access and key lookup both return, and every field
\* set is a key; a non-string key is reachable by key lookup only.
C7_DualAddressing ==
    IsDictV(tree) =>
        /\ \A m \in TreesIn(tree) :
              /\ \A k \in DOMAIN m.kv : IsStrName(k) => GetAttr(m, k) = Ok(m.kv[k])
              /\ \A k \in DOMAIN m.kv : ~IsStrName(k) => GetAttr(m, k).err = "TypeError"
              /\ \A k \in DOMAIN m.at : GetItem(m, k) = Ok(m.at[k])
        /\ (last.op \in SetOps /\ last.err = "") => last.name \in DOMAIN tree.kv

C7_Witness ==
    /\ last.op = "SetField" /\ last.err = "" /\ last.name = "keys"
    /\ IsDictV(tree) /\ "-13" \in DOMAIN tree.kv
    /\ GetItem(tree, "keys") = GetAttr(tree, "keys")

-----------------------------------------------------------------------------
(* C8 *)

\* C8: Construct succeeds on every mapping with non-string keys, at the top
\* or in nested mappings; every top-level entry is then found by key lookup
\* with its value, and to_dict returns the mapping unchanged.
C8_NonStringKeys ==
    (/\ last.op = "Construct"
     /\ \E k \in KeysIn(last.arg) : ~IsStrName(k)
     /\ \A k \in KeysIn(last.arg) : ~Refused(tree.cls, k))
        => /\ last.err = ""
           /\ \A k \in DOMAIN last.arg.kv :
                  GetItem(tree, k).err = "" /\ PyEq(GetItem(tree, k).val, last.arg.kv[k])
           /\ \A k \in DOMAIN last.arg.kv :
                  PyEq(ToDict(tree).kv[k], last.arg.kv[k]) \/ IsSeqV(last.arg.kv[k])

-----------------------------------------------------------------------------
(* Vocabulary of the merge properties *)

RECURSIVE Conforms(_, _), KeysMerged(_, _, _)

IsPlaceholder(d) == _is_req(d).err = "" /\ _is_req(d).val

\* result conforms to defaults at every level
Conforms(result, defaults) ==
    \A k \in DOMAIN defaults.kv :
        /\ k \in DOMAIN result.kv
        /\ IF IsPlaceholder(defaults.kv[k])
           THEN \/ result.kv[k] = defaults.kv[k]
                \/ Checks(_req_type_check(defaults.kv[k]).val, result.kv[k])
           ELSE IF IsDictV(defaults.kv[k])
           THEN IsDictV(result.kv[k]) /\ Conforms(result.kv[k], defaults.kv[k])
           ELSE ~IsDictV(result.kv[k])

\* result holds the keys of config and defaults, and the values the merge
\* rules give them, at every level
KeysMerged(result, config, defaults) ==
    /\ DOMAIN result.kv = DOMAIN config.kv \cup DOMAIN defaults.kv
    /\ \A k \in DOMAIN result.kv :
          IF k \notin DOMAIN config.kv THEN PyEq(result.kv[k], defaults.kv[k])
          ELSE IF k \notin DOMAIN defaults.kv THEN PyEq(result.kv[k], config.kv[k])
          ELSE IF IsDictV(config.kv[k]) /\ IsDictV(defaults.kv[k])
          THEN IsDictV(result.kv[k])
               /\ KeysMerged(result.kv[k], config.kv[k], defaults.kv[k])
          ELSE PyEq(result.kv[k], config.kv[k])

\* an enum placeholder with a non-empty option list, keyword in any case
IsEnumPlaceholder(d) ==
    /\ d.t = "str"
    /\ _enum_marker_match(Lower(d.s))
    /\ _enum_marker_group(Lower(d.s)) # <<>>

\* the options of an enum placeholder as its text writes them
OptionsAsWritten(s) ==
    {Strip(Split(SubSeq(s, 7, 6 + Len(_enum_marker_group(Lower(s)))), ",")[i]) :
        i \in DOMAIN Split(SubSeq(s, 7, 6 + Len(_enum_marker_group(Lower(s)))), ",")}

\* msg holds the dotted path, between quotes
QuoteOpen == {"key \"", "config key \""}
QuoteClose == {"\" ", "\" missing."}
MsgHasPath(msg, path) ==
    \E i \in 2..(Len(msg) - Len(Join(path, "."))) :
        /\ msg[i - 1] \in QuoteOpen
        /\ SubSeq(msg, i, i + Len(Join(path, ".")) - 1) = Join(path, ".")
        /\ msg[i + Len(Join(path, "."))] \in QuoteClose

\* the path of the key at which reading obj along path fails
FailingPrefix(obj, path) ==
    SubSeq(path, 1, CHOOSE n \in 1..Len(path) :
                        /\ GetPath(obj, SubSeq(path, 1, n)).err # ""
                        /\ \A m \in 1..(n - 1) : GetPath(obj, SubSeq(path, 1, m)).err = "")

-----------------------------------------------------------------------------
(* C3 *)

\* C3: _fill_default_config either returns a mapping that conforms to
\* defaults at every level, or fails with ConfigError.
C3_ConformsOrConfigError ==
    last.op = "Merge" =>
        IF out.filled THEN Conforms(cfg, dflt) ELSE out.err = "ConfigError"

-----------------------------------------------------------------------------
(* C4 *)

\* C4: the tree extend_config returns has at every level exactly the keys of
\* config united with the keys of defaults; a key only in defaults holds the
\* default, a key of config holds config's value, and where both hold
\* sub-trees the key holds their merge.
C4_ExactlyTheUnitedKeys ==
    (last.op = "Merge" /\ out.err = "") => KeysMerged(out.val, last.arg, dflt)

-----------------------------------------------------------------------------
(* C9 *)

\* C9: where defaults holds only an enum placeholder under "a" and config
\* holds a value that is no placeholder under "a", the merge accepts the
\* value iff it equals one of the options as the placeholder writes them,
\* and fails with ConfigError otherwise.
C9_EnumOptionsAsWritten ==
    (/\ last.op = "Merge"
     /\ DOMAIN dflt.kv = {"a"} /\ DOMAIN last.arg.kv = {"a"}
     /\ IsEnumPlaceholder(dflt.kv["a"])
     /\ ~IsPlaceholder(last.arg.kv["a"]))
        => /\ out.filled <=> /\ last.arg.kv["a"].t = "str"
                             /\ last.arg.kv["a"].s \in OptionsAsWritten(dflt.kv["a"].s)
           /\ ~out.filled => out.err = "ConfigError"

-----------------------------------------------------------------------------
(* C10 *)

\* C10: the message of every ConfigError, of the merge or of path access on
\* the validated object, holds the full dotted path from the root to the
\* offending key.
C10_FullPathInMessage ==
    /\ (last.op = "Merge" /\ out.err = "ConfigError") => MsgHasPath(out.msg, out.at)
    /\ (last.op = "Access" /\ last.err = "ConfigError")
           => MsgHasPath(last.arg.msg, FailingPrefix(out.val, last.name))

-----------------------------------------------------------------------------
(* C11 *)

\* C11: the merge, and every later Set on the caller's config or on the
\* returned tree, leaves the defaults tree with the contents it had: no step
\* changes defaults.
C11_DefaultsReadOnly == [][dflt' = dflt]_vars

-----------------------------------------------------------------------------
(* C12 *)

\* `stored` is the sequence `given` with its kind, its length and its
\* non-mapping elements kept, and a tree in the place of each mapping
SequenceKept(given, stored) ==
    /\ IsSeqV(stored)
    /\ stored.t = given.t
    /\ Len(stored.e) = Len(given.e)
    /\ \A i \in DOMAIN given.e :
          i \in DOMAIN stored.e =>
              IF IsDictV(given.e[i]) THEN IsAttributeTree(stored.e[i])
              ELSE stored.e[i] = given.e[i]

\* C12: Construct and Set keep the kind of every sequence value: after a
\* Construct, every sequence of the source, and every sequence a class-level
\* default field of the tree's type holds, is read back from the tree with
\* its kind (tuple or list), its non-mapping elements in place and a tree for
\* each mapping element; after a Set of a sequence, the same holds of the
\* value read back where it was set.
C12_SequenceKindKept ==
    /\ (last.op = "Construct" /\ last.err = "") =>
          /\ \A k \in DOMAIN src.kv \ DOMAIN last.arg :
                IsSeqV(src.kv[k]) =>
                    /\ GetItem(tree, k).err = ""
                    /\ SequenceKept(src.kv[k], GetItem(tree, k).val)
          /\ \A k \in DOMAIN ClassData(tree.cls) \ (DOMAIN src.kv \cup DOMAIN last.arg) :
                IsSeqV(ClassData(tree.cls)[k]) =>
                    /\ GetAttr(tree, k).err = ""
                    /\ SequenceKept(ClassData(tree.cls)[k], GetAttr(tree, k).val)
    /\ (last.op = "Set" /\ last.err = "" /\ IsSeqV(last.arg)) =>
          /\ ItemAt(tree, last.name).err = ""
          /\ SequenceKept(last.arg, ItemAt(tree, last.name).val)

-----------------------------------------------------------------------------
(* C13 *)

\* C13: a DeepCopy that returns gives a tree of the concrete type of the
\* tree copied, with contents equal to the original's at every depth.
C13_DeepCopySameType ==
    (last.op = "DeepCopy" /\ last.err = "") =>
        /\ IsAttributeTree(copy)
        /\ copy.cls = tree.cls
        /\ PyEq(copy, tree)

-----------------------------------------------------------------------------
(* C14 *)

\* the names a program uses as data keys: string keys that name no operation
\* of the class
DataNames(cls) ==
    {k \in Range(KeyOrder) : IsStrName(k) /\ ~IsDunder(k) /\ k \notin DOMAIN ClassNS(cls)}

\* C14: after any sequence of Set, update, pop, popitem and clear, a data
\* name is readable by field access exactly when it is a key of the backing
\* mapping, and field access returns the value the key holds; a key that was
\* removed is no longer readable by field access, and a mapping that update
\* stored is held as a tree.
C14_StylesAgreeAfterOps ==
    IsDictV(tree) =>
        \A k \in DataNames(tree.cls) :
            IF k \in DOMAIN tree.kv
            THEN /\ GetAttr(tree, k) = Ok(tree.kv[k])
                 /\ IsDictV(tree.kv[k]) => IsAttributeTree(tree.kv[k])
            ELSE GetAttr(tree, k).err \in {"AttributeError", "ConfigError"}

-----------------------------------------------------------------------------
(* C15 *)

\* C15: Construct, with or without keyword fields, and DeepCopy leave their
\* source with the contents it had, and so does every later Set on the new
\* tree at any depth; a Set on the source leaves the new tree unchanged.
\* (The source of Construct is src and its new tree is tree; the source of
\* DeepCopy is tree and its new tree is copy.)
C15_SourceIsolated ==
    [][/\ last'.op \in {"Construct", "Set"} => src' = src
       /\ last'.op \in {"DeepCopy", "SetCopy"} => tree' = tree /\ src' = src
       /\ last'.op = "SetSource" => tree' = tree /\ copy' = copy
       /\ last'.op = "Set" => copy' = copy]_vars

====
